---- MODULE Spec2Model ----
(***************************************************************************)
(* Identity reconciliation service (identifyContact and buildResponse of   *)
(* identifyService.ts).  The relational store is a sequence of contact     *)
(* rows, row i having id i (autoincrement).  Each await on a store call    *)
(* is one step of a request; Spec has one request in flight at a time,     *)
(* SpecTomb adds soft deletes made from outside the service, SpecWire any  *)
(* JSON body, SpecConc the requests of several clients.  everPrimary       *)
(* is a history variable: the ids of the rows that were primary at some    *)
(* time; posted counts the requests that have arrived.                     *)
(***************************************************************************)
EXTENDS Integers, Sequences, FiniteSets, TLC

VARIABLES store, now, loc, everPrimary, posted

vars == <<store, now, loc, everPrimary, posted>>

\* ---------------------------------------------------------------- bounds
MaxContacts == 3
MaxTime == 2
NumProcs == 2
MaxRequests == 4

NULL == "null"
EMPTY == ""
Emails == {"e1", "e2"}
Phones == {"p1"}
ReqEmails == Emails \cup {NULL}
ReqPhones == Phones \cup {NULL}
Requests == [email : ReqEmails, phoneNumber : ReqPhones]
Procs == 1..NumProcs

\* what a JSON body may carry in a field besides a non-empty string: nothing
\* (absent or null), the empty string, a number such as 42, or a falsy
\* non-string (0 or false)
NUMBER == "<number>"
ZERO == "<zero>"
BodyEmails == Emails \cup {NULL, EMPTY, NUMBER, ZERO}
BodyPhones == Phones \cup {NULL, EMPTY, NUMBER, ZERO}
Bodies == [email : BodyEmails, phoneNumber : BodyPhones]

\* ---------------------------------------------------------------- helpers
Range(s) == {s[i] : i \in 1..Len(s)}

\* JavaScript truthiness of a field
Truthy(x) == x \notin {NULL, EMPTY, ZERO}

\* typeof x === "string"
IsString(x) == x \notin {NULL, NUMBER, ZERO}

\* a value the columns email and phoneNumber (optional strings) take; the
\* client rejects a create with any other value before it reaches the store
Storable(x) == x = NULL \/ IsString(x)

\* x ?? null
OrNull(x) == IF x = NULL THEN NULL ELSE x

\* mutant: the queries forget the tombstone filter
LiveOrDeleted(st) == 1..Len(st)

\* rows a query may see: deletedAt: null
Live(st) == {i \in 1..Len(st) : st[i].deletedAt = 0}

\* findMany(... orderBy createdAt asc) over the rows ids: every order of the
\* rows that is ascending in createdAt (rows of equal createdAt come back in
\* an order the store does not fix)
RECURSIVE OrderedIds(_, _)
OrderedIds(st, ids) ==
  IF ids = {} THEN {<<>>}
  ELSE LET firsts == {i \in ids : \A j \in ids : st[i].createdAt <= st[j].createdAt}
       IN  UNION {{<<i>> \o s : s \in OrderedIds(st, ids \ {i})} : i \in firsts}

OrderByCreatedAt(st, ids) ==
  {[i \in 1..Len(s) |-> st[s[i]]] : s \in OrderedIds(st, ids)}

\* mutant: a field the request leaves out is matched as null
MatchingNulls(st, email, phoneNumber) ==
  {i \in Live(st) : st[i].email = email \/ st[i].phoneNumber = phoneNumber}

\* where-clause of the first query: email or phoneNumber equal to a supplied one
MatchingIds(st, email, phoneNumber) ==
  {i \in Live(st) : \/ Truthy(email) /\ st[i].email = email
                    \/ Truthy(phoneNumber) /\ st[i].phoneNumber = phoneNumber}

\* root of a matched contact
RootId(c) == IF c.linkPrecedence = "primary" THEN c.id ELSE c.linkedId

\* where-clause of the cluster queries: id in roots or linkedId in roots
ClusterIds(st, roots) ==
  {i \in Live(st) : i \in roots \/ st[i].linkedId \in roots}

IsPrimary(c) == c.linkPrecedence = "primary"
IsSecondary(c) == c.linkPrecedence = "secondary"

\* Array.prototype.sort by createdAt (stable): insertion after every element
\* whose createdAt is not later
InsertByCreatedAt(c, s) ==
  LET k == Cardinality({i \in 1..Len(s) : s[i].createdAt <= c.createdAt})
  IN  SubSeq(s, 1, k) \o <<c>> \o SubSeq(s, k + 1, Len(s))

RECURSIVE SortByCreatedAt(_)
SortByCreatedAt(s) ==
  IF s = <<>> THEN <<>>
  ELSE InsertByCreatedAt(s[Len(s)], SortByCreatedAt(SubSeq(s, 1, Len(s) - 1)))

\* mutant: the candidate primaries are sorted newest first
RECURSIVE Reverse(_)
Reverse(s) == IF s = <<>> THEN <<>> ELSE Append(Reverse(Tail(s)), Head(s))
PrimariesNewestFirst(allContacts) ==
  Reverse(SortByCreatedAt(SelectSeq(allContacts, IsPrimary)))

\* primaries = allContacts.filter(primary).sort(createdAt)
PrimariesOf(allContacts) == SortByCreatedAt(SelectSeq(allContacts, IsPrimary))

\* prisma.contact.create
NewContact(st, email, phoneNumber, linkedId, linkPrecedence, t) ==
  [id |-> Len(st) + 1, email |-> OrNull(email), phoneNumber |-> OrNull(phoneNumber),
   linkedId |-> linkedId, linkPrecedence |-> linkPrecedence,
   createdAt |-> t, updatedAt |-> t, deletedAt |-> 0]

\* mutant: the demotion forgets the link to the true primary
DemoteUnlinked(st, oldId, primaryId, t) ==
  [st EXCEPT ![oldId] = [@ EXCEPT !.linkPrecedence = "secondary", !.updatedAt = t]]

\* mutant: the demotion also stamps createdAt
DemoteRestamped(st, oldId, primaryId, t) ==
  [st EXCEPT ![oldId] = [@ EXCEPT !.linkedId = primaryId,
                                   !.linkPrecedence = "secondary",
                                   !.createdAt = t,
                                   !.updatedAt = t]]

\* prisma.contact.update({where: {id: oldId}, ...}): demotion of a stale primary
Demote(st, oldId, primaryId, t) ==
  [st EXCEPT ![oldId] = [@ EXCEPT !.linkedId = primaryId,
                                   !.linkPrecedence = "secondary",
                                   !.updatedAt = t]]

\* mutant: the contacts of a demoted primary are left pointing at it
RelinkNothing(st, oldId, primaryId, t) == st

\* mutant: the contacts of a demoted primary lose their link
RelinkCleared(st, oldId, primaryId, t) ==
  [i \in 1..Len(st) |->
     IF st[i].linkedId = oldId /\ st[i].deletedAt = 0
       THEN [st[i] EXCEPT !.linkedId = 0, !.updatedAt = t]
       ELSE st[i]]

\* prisma.contact.updateMany({where: {linkedId: oldId, deletedAt: null}, ...})
Relink(st, oldId, primaryId, t) ==
  [i \in 1..Len(st) |->
     IF st[i].linkedId = oldId /\ st[i].deletedAt = 0
       THEN [st[i] EXCEPT !.linkedId = primaryId, !.updatedAt = t]
       ELSE st[i]]

\* ---------------------------------------------------------------- response
NoResp == [status |-> "none", primaryContactId |-> 0, emails |-> <<>>,
           phoneNumbers |-> <<>>, secondaryContactIds |-> <<>>]
ErrResp == [NoResp EXCEPT !.status = "error"]

\* the de-duplicating loop of buildResponse over one field
RECURSIVE Dedup(_, _)
Dedup(acc, vals) ==
  IF vals = <<>> THEN acc
  ELSE Dedup(IF Truthy(Head(vals)) /\ Head(vals) \notin Range(acc)
               THEN Append(acc, Head(vals)) ELSE acc,
             Tail(vals))

buildResponse(primaryId, allContacts, secondaryIds) ==
  LET found == {i \in 1..Len(allContacts) : allContacts[i].id = primaryId}
  IN  IF found = {} THEN ErrResp   \* primary undefined: primary.email throws
      ELSE
        LET first == CHOOSE i \in found : \A j \in found : i <= j
            primary == allContacts[first]
            restIdx == {i \in 1..Len(allContacts) : allContacts[i].id # primaryId}
            rest == [k \in 1..Cardinality(restIdx) |->
                       allContacts[CHOOSE i \in restIdx :
                                     Cardinality({j \in restIdx : j < i}) = k - 1]]
            emails0 == IF Truthy(primary.email) THEN <<primary.email>> ELSE <<>>
            phones0 == IF Truthy(primary.phoneNumber) THEN <<primary.phoneNumber>> ELSE <<>>
        IN  [status |-> "ok",
             primaryContactId |-> primaryId,
             emails |-> Dedup(emails0, [k \in 1..Len(rest) |-> rest[k].email]),
             phoneNumbers |-> Dedup(phones0, [k \in 1..Len(rest) |-> rest[k].phoneNumber]),
             secondaryContactIds |-> secondaryIds]

\* ---------------------------------------------------------------- a request
\* The local variables of one call of identifyContact.  pc names the store
\* call the request is suspended on; date is the value of new Date() in the
\* arguments of that call, taken when the call was issued (0 when the call
\* carries none).
IdleLoc == [pc |-> "idle", email |-> NULL, phoneNumber |-> NULL,
            allContactIds |-> {}, allContacts |-> <<>>, primaries |-> <<>>,
            k |-> 0, date |-> 0, created |-> 0, resp |-> NoResp]

\* entry of identifyContact: the guard on the two fields, then the first query
StartLoc(req) ==
  IF ~Truthy(req.email) /\ ~Truthy(req.phoneNumber)
    THEN [IdleLoc EXCEPT !.pc = "failed", !.email = req.email,
                         !.phoneNumber = req.phoneNumber, !.resp = ErrResp]
    ELSE [IdleLoc EXCEPT !.pc = "find", !.email = req.email,
                         !.phoneNumber = req.phoneNumber]

Running(l) == l.pc \notin {"idle", "done", "failed", "rejected"}

truePrimary(l) == l.primaries[1]
otherPrimaries(l) == Tail(l.primaries)

\* a call that has ended: its fields, how it ended, the id of the contact it
\* created (0 if none) and its response; the other locals are gone
Return(l, pc, resp) ==
  [IdleLoc EXCEPT !.pc = pc, !.email = l.email, !.phoneNumber = l.phoneNumber,
                  !.created = l.created, !.resp = resp]

\* an exception leaves identifyContact: the route answers 500
Fail(l) == Return(l, "failed", ErrResp)

\* mutant: a candidate set without a primary is answered as an empty cluster
FinishEmpty(l) ==
  IF l.primaries = <<>> THEN Return(l, "done", [NoResp EXCEPT !.status = "ok"])
  ELSE
    LET secondaries == SelectSeq(l.allContacts, IsSecondary)
        r == buildResponse(truePrimary(l).id, l.allContacts,
                           [i \in 1..Len(secondaries) |-> secondaries[i].id])
    IN  Return(l, IF r.status = "ok" THEN "done" ELSE "failed", r)

\* Step 7: the secondaries of allContacts and the response
Finish(l) ==
  IF l.primaries = <<>> THEN Fail(l)        \* truePrimary.id of undefined
  ELSE
    LET secondaries == SelectSeq(l.allContacts, IsSecondary)
        r == buildResponse(truePrimary(l).id, l.allContacts,
                           [i \in 1..Len(secondaries) |-> secondaries[i].id])
    IN  Return(l, IF r.status = "ok" THEN "done" ELSE "failed", r)

\* Step 6: does the request carry new information
ExistingEmails(allContacts) == {c.email : c \in {d \in Range(allContacts) : Truthy(d.email)}}
ExistingPhones(allContacts) ==
  {c.phoneNumber : c \in {d \in Range(allContacts) : Truthy(d.phoneNumber)}}

\* mutant: every request is taken to carry new information
HasNewInfoAlways(l) == TRUE

\* mutant: only a new email counts as new information
HasNewEmailOnly(l) == Truthy(l.email) /\ l.email \notin ExistingEmails(l.allContacts)

HasNewInfo(l) ==
  \/ Truthy(l.email) /\ l.email \notin ExistingEmails(l.allContacts)
  \/ Truthy(l.phoneNumber) /\ l.phoneNumber \notin ExistingPhones(l.allContacts)

HasBothFields(l) == Truthy(l.email) /\ Truthy(l.phoneNumber)

Decide(l) ==
  IF HasNewInfo(l) /\ HasBothFields(l)
    THEN IF l.primaries = <<>> THEN Fail(l) ELSE [l EXCEPT !.pc = "createSecondary"]
    ELSE Finish(l)

\* Step 1: the matching query, then either the no-match branch or the roots
FindStep(st, t, l) ==
  LET ids == MatchingIds(st, l.email, l.phoneNumber)
  IN  IF ids = {}
        THEN {[store |-> st, loc |-> [l EXCEPT !.pc = "createPrimary"]]}
        ELSE {[store |-> st,
               loc |-> [l EXCEPT !.pc = "fetch",
                                 !.allContactIds = {RootId(st[i]) : i \in ids}]]}

\* Step 2: create the new primary and answer
CreatePrimaryStep(st, t, l) ==
  LET c == NewContact(st, l.email, l.phoneNumber, 0, "primary", t)
      r == buildResponse(c.id, <<c>>, <<>>)
  IN  IF ~Storable(l.email) \/ ~Storable(l.phoneNumber)
        THEN {[store |-> st, loc |-> Fail(l)]}
        ELSE {[store |-> Append(st, c),
               loc |-> Return([l EXCEPT !.created = c.id], "done", r)]}

\* Steps 3-4: fetch the touched clusters, pick the true primary
FetchStep(st, t, l) ==
  {LET l2 == [l EXCEPT !.allContacts = rows, !.primaries = PrimariesOf(rows)]
   IN  [store |-> st,
        loc |-> IF Len(l2.primaries) > 1
                  THEN [l2 EXCEPT !.pc = "demote", !.k = 1, !.date = t]
                  ELSE Decide(l2)]
   : rows \in OrderByCreatedAt(st, ClusterIds(st, l.allContactIds))}

\* Step 5, first call: demote otherPrimaries[k] (the call completes at t and
\* writes the updatedAt it was issued with)
DemoteStep(st, t, l) ==
  {[store |-> Demote(st, otherPrimaries(l)[l.k].id, truePrimary(l).id, l.date),
    loc |-> [l EXCEPT !.pc = "relink", !.date = t]]}

\* Step 5, second call: re-link the contacts that pointed at otherPrimaries[k]
RelinkStep(st, t, l) ==
  {[store |-> Relink(st, otherPrimaries(l)[l.k].id, truePrimary(l).id, l.date),
    loc |-> IF l.k < Len(otherPrimaries(l))
              THEN [l EXCEPT !.pc = "demote", !.k = l.k + 1, !.date = t]
              ELSE [l EXCEPT !.pc = "refresh", !.date = 0]]}

\* refresh of allContacts after the updates, then step 6
RefreshStep(st, t, l) ==
  {[store |-> st, loc |-> Decide([l EXCEPT !.allContacts = rows])]
   : rows \in OrderByCreatedAt(st, ClusterIds(st, {truePrimary(l).id}))}

\* Step 6, the create, then step 7
CreateSecondaryStep(st, t, l) ==
  LET c == NewContact(st, l.email, l.phoneNumber, truePrimary(l).id, "secondary", t)
  IN  {[store |-> Append(st, c),
        loc |-> Finish([l EXCEPT !.created = c.id,
                                 !.allContacts = Append(l.allContacts, c)])]}

\* one store call of a running request: every outcome it may have
StepOutcomes(st, t, l) ==
  CASE l.pc = "find" -> FindStep(st, t, l)
    [] l.pc = "createPrimary" -> CreatePrimaryStep(st, t, l)
    [] l.pc = "fetch" -> FetchStep(st, t, l)
    [] l.pc = "demote" -> DemoteStep(st, t, l)
    [] l.pc = "relink" -> RelinkStep(st, t, l)
    [] l.pc = "refresh" -> RefreshStep(st, t, l)
    [] l.pc = "createSecondary" -> CreateSecondaryStep(st, t, l)

\* a request run from its current position to its end with nothing but the
\* clock moving between its store calls: each call completes at the time the
\* clock then shows
RECURSIVE Run(_, _, _)
Run(st, t, l) ==
  IF ~Running(l) THEN {[store |-> st, loc |-> l]}
  ELSE UNION {UNION {Run(o.store, t2, o.loc) : o \in StepOutcomes(st, t2, l)}
              : t2 \in t..MaxTime}

\* a request run alone that a rejected store call ends early: every position
\* it may have reached, with the store as its completed calls left it
RECURSIVE Interrupted(_, _, _)
Interrupted(st, t, l) ==
  IF ~Running(l) THEN {}
  ELSE {[store |-> st, loc |-> Fail(l)]}
         \cup UNION {UNION {Interrupted(o.store, t2, o.loc)
                            : o \in StepOutcomes(st, t2, l)}
                     : t2 \in t..MaxTime}

\* identifyContact(req) called at time t with no other request in flight and
\* no row changed from outside while it runs
identifyContact(st, t, req) == Run(st, t, StartLoc(req))

\* the route answers 400 before identifyContact is called
Rejected(body) ==
  [IdleLoc EXCEPT !.pc = "rejected",
                  !.resp = [NoResp EXCEPT !.status = "rejected"]]

\* POST /identify up to its first await: the two validations, then the call
\* of identifyContact on the fields
Enter(body) ==
  IF ~Truthy(body.email) /\ ~Truthy(body.phoneNumber) THEN Rejected(body)
  ELSE IF Truthy(body.email) /\ ~IsString(body.email) THEN Rejected(body)
  ELSE IF Truthy(body.phoneNumber) /\ ~IsString(body.phoneNumber) THEN Rejected(body)
  ELSE StartLoc([email |-> OrNull(body.email),
                 phoneNumber |-> OrNull(body.phoneNumber)])

\* POST /identify served with no other request in flight: 400 on a
\* validation, 200 with the response, 500 on an exception
PostIdentify(st, t, body) == Run(st, t, Enter(body))

\* ---------------------------------------------------------------- steps
\* identifyContact is an async function: it gives the event loop back at every
\* await, so each store call of a request is a step of its own and the clock,
\* the other requests and the outside world may move between two of them.

\* the rows that are primary
PrimaryIds(st) == {i \in 1..Len(st) : IsPrimary(st[i])}

\* no request is in flight
Quiet == \A p \in Procs : ~Running(loc[p])

\* the call of the first client: in flight, or as it ended
last == loc[1]

Init ==
  /\ store = <<>>
  /\ now = 1
  /\ loc = [p \in Procs |-> IdleLoc]
  /\ everPrimary = {}
  /\ posted = 0

\* the clock of the store (createdAt default, new Date()) advances
Tick ==
  /\ now < MaxTime
  /\ now' = now + 1
  /\ UNCHANGED <<store, loc, everPrimary, posted>>

\* a POST /identify of client p arrives with one of the bodies and runs up to
\* its first await (or is answered 400); posted counts the requests, of which
\* a behaviour holds MaxRequests at most
Arrive(p, bodies) ==
  /\ ~Running(loc[p])
  /\ posted < MaxRequests
  /\ posted' = posted + 1
  /\ \E body \in bodies : loc' = [loc EXCEPT ![p] = Enter(body)]
  /\ UNCHANGED <<store, now, everPrimary>>

\* the first client posts a request (fields that are strings or absent) when
\* its request before has been answered
Post == Arrive(1, Requests)

\* the store call that request p awaits completes
Take(p, outcomes) ==
  \E o \in outcomes :
    /\ Len(o.store) <= MaxContacts
    /\ store' = o.store
    /\ loc' = [loc EXCEPT ![p] = o.loc]
    /\ everPrimary' = everPrimary \cup PrimaryIds(o.store)
    /\ UNCHANGED <<now, posted>>

Find(p) == loc[p].pc = "find" /\ Take(p, FindStep(store, now, loc[p]))
CreatePrimary(p) ==
  loc[p].pc = "createPrimary" /\ Take(p, CreatePrimaryStep(store, now, loc[p]))
Fetch(p) == loc[p].pc = "fetch" /\ Take(p, FetchStep(store, now, loc[p]))
DemoteOld(p) == loc[p].pc = "demote" /\ Take(p, DemoteStep(store, now, loc[p]))
RelinkOld(p) == loc[p].pc = "relink" /\ Take(p, RelinkStep(store, now, loc[p]))
Refresh(p) == loc[p].pc = "refresh" /\ Take(p, RefreshStep(store, now, loc[p]))
CreateSecondary(p) ==
  loc[p].pc = "createSecondary" /\ Take(p, CreateSecondaryStep(store, now, loc[p]))

\* ---------------------------------------------------------------- Spec
\* one client: a request arrives when the one before has been answered
Next ==
  \/ Tick
  \/ Post
  \/ \E p \in Procs :
       \/ Find(p)
       \/ CreatePrimary(p)
       \/ Fetch(p)
       \/ DemoteOld(p)
       \/ RelinkOld(p)
       \/ Refresh(p)
       \/ CreateSecondary(p)

Spec == Init /\ [][Next]_vars

\* ---------------------------------------------------------------- SpecTomb
\* deletedAt is set from outside the service (a soft delete of one row), at
\* any time, also between two store calls of a request
Tombstone ==
  /\ \E i \in Live(store) : store' = [store EXCEPT ![i].deletedAt = now]
  /\ UNCHANGED <<now, loc, everPrimary, posted>>

NextTomb == Next \/ Tombstone

SpecTomb == Init /\ [][NextTomb]_vars

\* ---------------------------------------------------------------- SpecWire
\* one client posting any JSON body
PostWire == Arrive(1, Bodies)

NextWire == Next \/ PostWire

SpecWire == Init /\ [][NextWire]_vars

\* ---------------------------------------------------------------- SpecConc
\* Requests of several clients in flight at once: every client posts a
\* request whenever its request before has been answered, whatever the other
\* clients are doing.
Start(p) == p > 1 /\ Arrive(p, Requests)

\* the store call a request is suspended on rejects (store failure, timeout,
\* the caller gone): the exception leaves identifyContact and the route
\* answers 500, the store as the completed calls left it
Abort(p) ==
  /\ Running(loc[p])
  /\ loc' = [loc EXCEPT ![p] = Fail(loc[p])]
  /\ UNCHANGED <<store, now, everPrimary, posted>>

NextConc ==
  \/ Next
  \/ \E p \in Procs :
       \/ Start(p)
       \/ Abort(p)

SpecConc == Init /\ [][NextConc]_vars

\* ================================================================ claims
\* The claims about a request served alone are stated at the stores in which
\* no request is in flight (Quiet), for every request that may arrive there
\* and every way it may run (identifyContact).
\* What the claims speak of, stated on the rows of the store alone.
Supplied(x) == x \notin {NULL, EMPTY}
Rows(st) == 1..Len(st)
Matched(st, req) ==
  {i \in Rows(st) : /\ st[i].deletedAt = 0
                    /\ \/ Supplied(req.email) /\ st[i].email = req.email
                       \/ Supplied(req.phoneNumber) /\ st[i].phoneNumber = req.phoneNumber}
PrimaryOf(st, i) == IF st[i].linkPrecedence = "primary" THEN i ELSE st[i].linkedId
Touched(st, req) == {PrimaryOf(st, i) : i \in Matched(st, req)}
Members(st, roots) == {i \in Rows(st) : st[i].deletedAt = 0 /\ PrimaryOf(st, i) \in roots}
Eldest(st, S) == {i \in S : \A j \in S : st[i].createdAt <= st[j].createdAt}
Ids(seq) == {seq[i] : i \in 1..Len(seq)}
ReqOf(l) == [email |-> l.email, phoneNumber |-> l.phoneNumber]
Forest(st) ==
  \A i \in Rows(st) :
    /\ st[i].linkPrecedence = "primary" => st[i].linkedId = 0
    /\ st[i].linkPrecedence = "secondary" =>
         /\ st[i].linkedId \in Rows(st)
         /\ st[st[i].linkedId].linkPrecedence = "primary"

\* C1: when the contacts a request matches lie in two or more clusters, the
\* request completes; an eldest touched primary is still primary and is the
\* response's primaryContactId; every other touched primary is secondary under
\* it; every contact that pointed at a demoted primary points at it; and
\* secondaryContactIds holds every demoted primary and every re-linked contact.
ClusterMerge ==
  Quiet =>
  \A req \in Requests :
    LET T == Touched(store, req)
    IN  Cardinality(T) >= 2 =>
          \A o \in identifyContact(store, now, req) :
            /\ o.loc.pc = "done"
            /\ LET tp == o.loc.resp.primaryContactId
                   sec == Ids(o.loc.resp.secondaryContactIds)
               IN  /\ tp \in Eldest(store, T)
                   /\ o.store[tp].linkPrecedence = "primary"
                   /\ o.store[tp].linkedId = 0
                   /\ \A q \in T \ {tp} :
                        /\ o.store[q].linkPrecedence = "secondary"
                        /\ o.store[q].linkedId = tp
                        /\ q \in sec
                   /\ \A c \in Rows(store) :
                        store[c].linkedId \in T \ {tp} =>
                          /\ o.store[c].linkedId = tp
                          /\ c \in sec

\* a merge that re-links: a request touching two clusters, the junior one
\* having a secondary, which the request moves under the senior primary
ClusterMergeWitness ==
  Quiet /\
  \E req \in Requests :
    \E o \in identifyContact(store, now, req) :
      LET T == Touched(store, req)
          tp == o.loc.resp.primaryContactId
      IN  /\ Cardinality(T) >= 2
          /\ o.loc.pc = "done"
          /\ \E c \in Rows(store) :
               /\ store[c].linkedId \in T \ {tp}
               /\ o.store[c].linkedId = tp

\* C2: in every store reached by requests served one at a time from the empty
\* store, a primary has no linkedId and a secondary's linkedId is the id of a
\* primary.
ForestInvariant == Quiet => Forest(store)

\* a cluster of depth one holding a demoted primary and a re-linked secondary,
\* left by a merge (a demoted primary is the only secondary lacking a field)
ForestWitness ==
  /\ last.pc = "done"
  /\ \E q, c \in Rows(store) :
       /\ q # c
       /\ store[q].linkPrecedence = "secondary"
       /\ store[q].email = NULL \/ store[q].phoneNumber = NULL
       /\ store[c].linkPrecedence = "secondary"
       /\ store[c].linkedId = store[q].linkedId
       /\ store[c].linkedId = last.resp.primaryContactId

\* C3: a request that succeeded, run again with nothing in between, succeeds
\* with the same primaryContactId and the same sets of emails and
\* phoneNumbers, and leaves every row as it was and creates none (whatever
\* the clock shows at the second run).
Idempotence ==
  Quiet =>
  \A req \in Requests :
    \A o1 \in identifyContact(store, now, req) :
      o1.loc.pc = "done" =>
        \A t2 \in now..MaxTime :
          \A o2 \in identifyContact(o1.store, t2, req) :
            /\ o2.loc.pc = "done"
            /\ o2.loc.resp.primaryContactId = o1.loc.resp.primaryContactId
            /\ Ids(o2.loc.resp.emails) = Ids(o1.loc.resp.emails)
            /\ Ids(o2.loc.resp.phoneNumbers) = Ids(o1.loc.resp.phoneNumbers)
            /\ o2.store = o1.store
            /\ o2.loc.created = 0

\* the store right after a request that created a contact, where the same
\* request run again changes nothing and names the same primary
IdempotenceWitness ==
  /\ last.pc = "done"
  /\ last.created = Len(store)
  /\ Len(store) >= 2
  /\ \A o2 \in identifyContact(store, now, ReqOf(last)) :
       /\ o2.store = store
       /\ o2.loc.resp.primaryContactId = last.resp.primaryContactId

\* C4: a request that matches some contact creates a contact exactly when it
\* supplies both fields and one of them is in no member of the touched
\* clusters (the cluster after the merge); the contact created is a secondary
\* carrying the request's email and phone under the true primary.
NewInformation ==
  Quiet =>
  \A req \in Requests :
    Matched(store, req) # {} =>
      LET M == Members(store, Touched(store, req))
          both == Supplied(req.email) /\ Supplied(req.phoneNumber)
          isNew == \/ \A i \in M : store[i].email # req.email
                   \/ \A i \in M : store[i].phoneNumber # req.phoneNumber
      IN  \A o \in identifyContact(store, now, req) :
            /\ o.loc.pc = "done"
            /\ Len(o.store) = Len(store) + (IF both /\ isNew THEN 1 ELSE 0)
            /\ Len(o.store) > Len(store) =>
                 LET c == o.store[Len(o.store)]
                 IN  /\ c.linkPrecedence = "secondary"
                     /\ c.email = req.email
                     /\ c.phoneNumber = req.phoneNumber
                     /\ c.linkedId = o.loc.resp.primaryContactId
                     /\ o.store[c.linkedId].linkPrecedence = "primary"
                     /\ c.linkedId \in Eldest(store, Touched(store, req))
                     /\ o.loc.created = c.id

\* the store right after a request that matched a cluster and added a
\* secondary to it
NewInformationWitness ==
  /\ last.pc = "done"
  /\ last.created = Len(store)
  /\ store[Len(store)].linkPrecedence = "secondary"
  /\ store[Len(store)].email = last.email
  /\ store[Len(store)].phoneNumber = last.phoneNumber
  /\ store[Len(store)].linkedId = last.resp.primaryContactId

\* C5: a request that supplies exactly one of email and phone and matches some
\* contact leaves the store as it was: no row created, no row changed.
SingleFieldMatch ==
  Quiet =>
  \A req \in Requests :
    /\ Supplied(req.email) # Supplied(req.phoneNumber)
    /\ Matched(store, req) # {}
    => \A o \in identifyContact(store, now, req) :
         /\ o.store = store
         /\ o.loc.created = 0
         /\ o.loc.pc = "done"

\* the store right after a single-field request that matched a cluster of
\* several contacts
SingleFieldMatchWitness ==
  /\ last.pc = "done"
  /\ Supplied(last.email) # Supplied(last.phoneNumber)
  /\ last.created = 0
  /\ Len(last.resp.secondaryContactIds) >= 1
  /\ Matched(store, ReqOf(last)) # {}

\* C6: a request whose supplied fields equal no live contact's email or phone
\* creates exactly one contact, a primary with no linkedId carrying the
\* request's fields, changes no existing row, and answers with that contact's
\* id as primaryContactId and no secondaryContactIds.
NoMatchCreatesPrimary ==
  Quiet =>
  \A req \in Requests :
    /\ Supplied(req.email) \/ Supplied(req.phoneNumber)
    /\ Matched(store, req) = {}
    => \A o \in identifyContact(store, now, req) :
         /\ o.loc.pc = "done"
         /\ Len(o.store) = Len(store) + 1
         /\ SubSeq(o.store, 1, Len(store)) = store
         /\ LET c == o.store[Len(o.store)]
            IN  /\ c.id = Len(o.store)
                /\ c.linkPrecedence = "primary"
                /\ c.linkedId = 0
                /\ c.email = req.email
                /\ c.phoneNumber = req.phoneNumber
                /\ c.deletedAt = 0
                /\ o.loc.resp.primaryContactId = c.id
                /\ o.loc.resp.secondaryContactIds = <<>>

\* the store right after a request that matched nothing although a
\* tombstoned contact carries its email or phone: a new primary beside it
NoMatchWitness ==
  /\ last.pc = "done"
  /\ last.created = Len(store)
  /\ store[Len(store)].linkPrecedence = "primary"
  /\ last.resp.primaryContactId = Len(store)
  /\ last.resp.secondaryContactIds = <<>>
  /\ \E i \in Rows(store) :
       /\ store[i].deletedAt # 0
       /\ \/ Supplied(last.email) /\ store[i].email = last.email
          \/ Supplied(last.phoneNumber) /\ store[i].phoneNumber = last.phoneNumber

\* C7: when several candidate primaries share the earliest createdAt, the one
\* of smallest id is the true primary, whatever order the store returns the
\* rows of equal createdAt in.
TieBreakSmallestId ==
  Quiet =>
  \A req \in Requests :
    LET E == Eldest(store, Touched(store, req))
    IN  Cardinality(E) >= 2 =>
          \A o \in identifyContact(store, now, req) :
            o.loc.pc = "done" =>
              \A i \in E : o.loc.resp.primaryContactId <= i

\* C8: when two requests carrying the same email and phone have run
\* concurrently and both have completed, at most one of them has added a
\* secondary with that email and phone.
NoDuplicateSecondary ==
  \A p, q \in Procs :
    /\ p < q
    /\ loc[p].pc = "done" /\ loc[q].pc = "done"
    /\ ReqOf(loc[p]) = ReqOf(loc[q])
    /\ Supplied(loc[p].email) /\ Supplied(loc[p].phoneNumber)
    => Cardinality({i \in Rows(store) :
                      /\ i \in {loc[p].created, loc[q].created}
                      /\ store[i].linkPrecedence = "secondary"
                      /\ store[i].email = loc[p].email
                      /\ store[i].phoneNumber = loc[p].phoneNumber}) <= 1

\* C9: once the concurrent requests have all completed, every secondary's
\* linkedId is the id of a primary and every primary has none.
NoLostUpdate == (\A p \in Procs : loc[p].pc = "done") => Forest(store)

\* C10: in no state of the store is a stale primary of a request in flight
\* already a secondary while a live contact still points at it, nor still a
\* primary while a contact that pointed at it already points at the true
\* primary.
AtomicDemotion ==
  \A p \in Procs :
    Running(loc[p]) /\ Len(loc[p].primaries) > 1 =>
      LET tp == truePrimary(loc[p]).id
      IN  \A j \in 1..Len(otherPrimaries(loc[p])) :
            LET q == otherPrimaries(loc[p])[j].id
                pointed == {c.id : c \in {d \in Range(loc[p].allContacts) : d.linkedId = q}}
            IN  /\ ~ /\ store[q].linkPrecedence = "secondary"
                     /\ store[q].linkedId = tp
                     /\ \E c \in Live(store) : store[c].linkedId = q
                /\ ~ /\ store[q].linkPrecedence = "primary"
                     /\ \E c \in pointed : store[c].linkedId = tp

\* the link structure of a store: per row its fields, precedence and link
\* (the timestamps left out)
Links(st) ==
  [i \in Rows(st) |-> <<st[i].email, st[i].phoneNumber, st[i].linkPrecedence, st[i].linkedId>>]

\* C11: a request that failed after any prefix of its store calls, run again
\* to completion on the store it left, succeeds and ends in the clusters an
\* uninterrupted run would have produced (same rows, same primary, same
\* members linked directly to it), no contact created twice.
SafeRetry ==
  Quiet =>
  \A req \in Requests :
    \A f \in Interrupted(store, now, StartLoc(req)) :
      \A r \in identifyContact(f.store, now, req) :
        /\ r.loc.pc = "done"
        /\ \E u \in identifyContact(store, now, req) :
             /\ Links(r.store) = Links(u.store)
             /\ r.loc.resp.primaryContactId = u.loc.resp.primaryContactId

\* no value twice in a list
NoDuplicates(seq) == \A i, j \in 1..Len(seq) : seq[i] = seq[j] => i = j

\* C12: in the response of every request that succeeds, emails holds no value
\* twice, phoneNumbers holds no value twice, and an email (phone) of the
\* primary contact that is not null is the first entry of emails
\* (phoneNumbers).
ResponseDedup ==
  Quiet =>
  \A body \in Bodies :
    \A o \in PostIdentify(store, now, body) :
      o.loc.pc = "done" =>
        LET r == o.loc.resp
            primary == o.store[r.primaryContactId]
        IN  /\ NoDuplicates(r.emails)
            /\ NoDuplicates(r.phoneNumbers)
            /\ primary.email # NULL => r.emails # <<>> /\ r.emails[1] = primary.email
            /\ primary.phoneNumber # NULL =>
                 r.phoneNumbers # <<>> /\ r.phoneNumbers[1] = primary.phoneNumber

\* the cluster of a contact (the live contacts under its primary) and the
\* identifiers a set of contacts carries
ClusterOf(st, c) == Members(st, {PrimaryOf(st, c)})
IdentifierSet(st, S) ==
  ({st[i].email : i \in S} \cup {st[i].phoneNumber : i \in S}) \ {NULL}

\* C13: whatever request is served next, every contact of the store is
\* afterwards in a cluster that carries every email and phone its cluster
\* carried before.
MonotoneIdentifiers ==
  Quiet =>
  \A req \in Requests :
    \A o \in identifyContact(store, now, req) :
      \A c \in Rows(store) :
        IdentifierSet(store, ClusterOf(store, c))
          \subseteq IdentifierSet(o.store, ClusterOf(o.store, c))

\* a merge after which a demoted primary's cluster carries identifiers it
\* did not carry before
MonotoneWitness ==
  Quiet /\
  \E req \in Requests :
    \E o \in identifyContact(store, now, req) :
      \E c \in Rows(store) :
        /\ o.loc.pc = "done"
        /\ store[c].linkPrecedence = "primary"
        /\ o.store[c].linkPrecedence = "secondary"
        /\ IdentifierSet(store, ClusterOf(store, c))
             # IdentifierSet(o.store, ClusterOf(o.store, c))
        /\ IdentifierSet(store, ClusterOf(store, c))
             \subseteq IdentifierSet(o.store, ClusterOf(o.store, c))

\* C14: after any sequence of requests served one at a time, every contact
\* that is or ever was a primary lies under a primary whose createdAt is no
\* later than its own.
Seniority ==
  Quiet =>
  \A q \in everPrimary :
    LET r == PrimaryOf(store, q)
    IN  /\ r \in Rows(store)
        /\ store[r].linkPrecedence = "primary"
        /\ store[r].createdAt <= store[q].createdAt

\* a cluster holding a demoted primary under a primary created before it,
\* left by the merge just served
SeniorityWitness ==
  /\ last.pc = "done"
  /\ \E q \in everPrimary :
       /\ store[q].linkPrecedence = "secondary"
       /\ store[q].linkedId = last.resp.primaryContactId
       /\ store[store[q].linkedId].createdAt < store[q].createdAt

\* C15: a body in which neither field is supplied (each absent, null or
\* empty), or in which a field holds a value that is not a string, is answered
\* with the client error, identifyContact is not called (no store read) and
\* the store is left as it was.
InvalidRequest ==
  Quiet =>
  \A body \in Bodies :
    \/ body.email \in {NULL, EMPTY} /\ body.phoneNumber \in {NULL, EMPTY}
    \/ body.email \in {NUMBER, ZERO}
    \/ body.phoneNumber \in {NUMBER, ZERO}
    => \A o \in PostIdentify(store, now, body) :
         /\ o.loc.pc = "rejected"
         /\ o.store = store

\* the candidate set of a request: the live rows that are one of its roots or
\* point at one
Candidates(st, roots) ==
  {i \in Rows(st) : st[i].deletedAt = 0 /\ (i \in roots \/ st[i].linkedId \in roots)}

\* C16: when the store call that fetches the candidate set of a request in
\* flight finds no primary in it, the request ends there in an error, with
\* no cluster response, no contact created and no row changed.
InconsistentState ==
  \A p \in Procs :
    /\ loc[p].pc = "fetch"
    /\ \A i \in Candidates(store, loc[p].allContactIds) :
         store[i].linkPrecedence # "primary"
    => \A o \in FetchStep(store, now, loc[p]) :
         /\ o.loc.pc = "failed"
         /\ o.loc.resp = ErrResp
         /\ o.loc.created = 0
         /\ o.store = store

\* the store right after a request that matched a secondary whose primary is
\* tombstoned and ended in the error
InconsistentStateWitness ==
  /\ last.pc = "failed"
  /\ Matched(store, ReqOf(last)) # {}
  /\ \A i \in Candidates(store, Touched(store, ReqOf(last))) :
       store[i].linkPrecedence # "primary"
  /\ \E i \in Matched(store, ReqOf(last)) :
       /\ store[i].linkPrecedence = "secondary"
       /\ store[store[i].linkedId].deletedAt # 0

\* a step of a request (a store call of it completing, or its arrival)
\* leaves every row in place with its id, email, phoneNumber, createdAt and
\* deletedAt, turns no secondary into a primary, and changes a row only as
\* the update or the updateMany of a request that fetched more than one
\* primary: the row becomes or stays a secondary under its true primary
FrameStep ==
  (\E p \in Procs : loc'[p] # loc[p]) =>
    /\ Len(store') >= Len(store)
    /\ \A i \in Rows(store) :
         /\ store'[i].id = store[i].id
         /\ store'[i].email = store[i].email
         /\ store'[i].phoneNumber = store[i].phoneNumber
         /\ store'[i].createdAt = store[i].createdAt
         /\ store'[i].deletedAt = store[i].deletedAt
         /\ store[i].linkPrecedence = "secondary" =>
              store'[i].linkPrecedence = "secondary"
         /\ store'[i] # store[i] =>
              \E p \in Procs :
                /\ loc'[p] # loc[p]
                /\ loc[p].pc \in {"demote", "relink"}
                /\ Len(loc[p].primaries) > 1
                /\ store'[i].linkPrecedence = "secondary"
                /\ store'[i].linkedId = loc[p].primaries[1].id

\* C17: no step of any request removes a contact, changes an id, email,
\* phoneNumber, createdAt or deletedAt, or turns a secondary into a primary;
\* rows change only by demotion and re-linking, in a request whose matches
\* touch more than one primary (rows tombstoned from outside in between
\* included).
FrameOfMutation == [][FrameStep]_vars

\* a request in flight that has demoted one row and re-linked another, both
\* with the fields and createdAt they had when it fetched them
FrameWitness ==
  /\ last.pc = "refresh"
  /\ \E a, b \in 1..Len(last.allContacts) :
       LET i == last.allContacts[a].id
           j == last.allContacts[b].id
       IN  /\ last.allContacts[a].linkPrecedence = "primary"
           /\ store[i].linkPrecedence = "secondary"
           /\ store[i].linkedId = truePrimary(last).id
           /\ store[i].createdAt = last.allContacts[a].createdAt
           /\ last.allContacts[b].linkPrecedence = "secondary"
           /\ last.allContacts[b].linkedId = i
           /\ store[j].linkedId = truePrimary(last).id
           /\ store[j].email = last.allContacts[b].email

\* the live rows linked to a contact
LinkedTo(st, tp) == {i \in Rows(st) : st[i].deletedAt = 0 /\ st[i].linkedId = tp}

\* C18: when a request served alone succeeds, primaryContactId is the id of a
\* row that is primary in the store it leaves, and secondaryContactIds lists
\* exactly the live rows whose linkedId is primaryContactId, each once, in
\* ascending createdAt, a contact created by the request last.
ResponseMatchesStore ==
  Quiet =>
  \A req \in Requests :
    \A o \in identifyContact(store, now, req) :
      o.loc.pc = "done" =>
        LET tp == o.loc.resp.primaryContactId
            ids == o.loc.resp.secondaryContactIds
        IN  /\ tp \in Rows(o.store)
            /\ o.store[tp].linkPrecedence = "primary"
            /\ NoDuplicates(ids)
            /\ Ids(ids) = LinkedTo(o.store, tp)
            /\ \A a, b \in 1..Len(ids) :
                 a < b => o.store[ids[a]].createdAt <= o.store[ids[b]].createdAt
            /\ o.loc.created # 0 /\ o.store[o.loc.created].linkPrecedence = "secondary"
                 => ids # <<>> /\ ids[Len(ids)] = o.loc.created

\* two rows carrying the same email or the same phone
SharesIdentifier(st, i, j) ==
  \/ st[i].email # NULL /\ st[i].email = st[j].email
  \/ st[i].phoneNumber # NULL /\ st[i].phoneNumber = st[j].phoneNumber

\* C19: in every store reached from the empty store by requests served one
\* at a time, two contacts with the same non-null email or the same non-null
\* phoneNumber have the same primary.
SharedIdentifierSameCluster ==
  Quiet =>
  \A i, j \in Rows(store) :
    SharesIdentifier(store, i, j) => PrimaryOf(store, i) = PrimaryOf(store, j)

\* C20: once two concurrent requests that carried the same email or the same
\* phone, matched by no contact when they arrived, have both completed, the
\* contacts they created are not two primaries sharing that email or phone.
NoDuplicatePrimary ==
  \A p, q \in Procs :
    /\ p < q
    /\ loc[p].pc = "done" /\ loc[q].pc = "done"
    /\ loc[p].created # 0 /\ loc[q].created # 0
    /\ \/ Supplied(loc[p].email) /\ loc[p].email = loc[q].email
       \/ Supplied(loc[p].phoneNumber) /\ loc[p].phoneNumber = loc[q].phoneNumber
    => ~ /\ store[loc[p].created].linkPrecedence = "primary"
         /\ store[loc[q].created].linkPrecedence = "primary"
         /\ SharesIdentifier(store, loc[p].created, loc[q].created)
====
